---- MODULE Spec2Model ----
(***************************************************************************)
(* Swag Store API (src/main.py): a FastAPI service over a document store   *)
(* with two collections, "product" and "cartitem".  The model keeps the    *)
(* two collections, the position of every request worker inside            *)
(* seed_products (the one handler whose store calls are interleaved with   *)
(* other requests here) and the response sent to the latest request.       *)
(*                                                                         *)
(* A Python value is a record: its type t and, by type, a number n (a bool *)
(* is 0 or 1), an opaque text s, a sequence of characters c or a list l.   *)
(* A stored document is a function from field names to values whose        *)
(* DOMAIN is the set of keys present, so that dict.get(key, default) can   *)
(* tell an absent key from a stored None.  Strings whose characters the    *)
(* code inspects (identifiers, prices) are written with Chars, as          *)
(* sequences of one-character strings; all other text with Str.            *)
(***************************************************************************)
EXTENDS Integers, Sequences, FiniteSets, TLC

VARIABLES products, cartitems, pc, resp

vars == <<products, cartitems, pc, resp>>

---------------------------------------------------------------------------
(* Bounds of the model.                                                    *)

NumWorkers == 2
MaxCreated == 1
MaxCart == 1

Workers == 1..NumWorkers

---------------------------------------------------------------------------
(* Python values.                                                          *)

Value(t, n, s, c, l) == [t |-> t, n |-> n, s |-> s, c |-> c, l |-> l]

None == Value("none", 0, "", <<>>, <<>>)
Str(s) == Value("str", 0, s, <<>>, <<>>)
Chars(c) == Value("str", 0, "", c, <<>>)
Num(n) == Value("num", n, "", <<>>, <<>>)
Bool(b) == Value("bool", IF b THEN 1 ELSE 0, "", <<>>, <<>>)
List(q) == Value("list", 0, "", <<>>, q)
Oid(n) == Value("oid", n, "", <<>>, <<>>)

Get(doc, key, default) == IF key \in DOMAIN doc THEN doc[key] ELSE default

(* x or default *)
Truthy(x) ==
  CASE x.t = "none" -> FALSE
    [] x.t = "bool" -> x.n # 0
    [] x.t = "num" -> x.n # 0
    [] x.t = "str" -> x.s # "" \/ x.c # <<>>
    [] x.t = "list" -> x.l # <<>>
    [] OTHER -> TRUE

Or(x, default) == IF Truthy(x) THEN x ELSE default

DefaultSizes == List(<<Str("XS"), Str("S"), Str("M"), Str("L"), Str("XL")>>)

SeqToSet(q) == {q[i] : i \in 1..Len(q)}

---------------------------------------------------------------------------
(* float(x): a number converts to itself, a bool to 0 or 1, a string of    *)
(* decimal digits to its value; any other string is a ValueError and any   *)
(* other type a TypeError.  The result is <<value>> or <<>> for a raise.   *)

Digits == <<"0", "1", "2", "3", "4", "5", "6", "7", "8", "9">>

DigitSet == SeqToSet(Digits)

DigitVal(c) == (CHOOSE i \in 1..Len(Digits) : Digits[i] = c) - 1

(* the value of the first n digits of s *)
RECURSIVE ParseDecTo(_, _)
ParseDecTo(s, n) ==
  IF n = 0 THEN 0 ELSE ParseDecTo(s, n - 1) * 10 + DigitVal(s[n])

ParseDec(s) == ParseDecTo(s, Len(s))

Float(x) ==
  CASE x.t = "num" -> <<x.n>>
    [] x.t = "bool" -> <<x.n>>
    [] x.t = "str" ->
         IF x.s = "" /\ x.c # <<>> /\ \A i \in 1..Len(x.c) : x.c[i] \in DigitSet
         THEN <<ParseDec(x.c)>>
         ELSE <<>>
    [] OTHER -> <<>>

---------------------------------------------------------------------------
(* bson.ObjectId: a 12-byte value, here a natural number.  str() renders   *)
(* it as 24 lower-case hexadecimal digits; ObjectId(s) parses 24 digits of *)
(* either case; is_valid(s) is FALSE for anything else.                    *)

OidLen == 24

HexLower == <<"0", "1", "2", "3", "4", "5", "6", "7", "8", "9",
              "a", "b", "c", "d", "e", "f">>
HexUpper == <<"0", "1", "2", "3", "4", "5", "6", "7", "8", "9",
              "A", "B", "C", "D", "E", "F">>

HexLowerSet == SeqToSet(HexLower)
HexSet == SeqToSet(HexLower) \cup SeqToSet(HexUpper)

IsHex(c) == c \in HexSet

HexVal(c) ==
  IF c \in HexLowerSet
  THEN (CHOOSE i \in 1..16 : HexLower[i] = c) - 1
  ELSE (CHOOSE i \in 1..16 : HexUpper[i] = c) - 1

RECURSIVE HexDigits(_, _)
HexDigits(n, len) ==
  IF len = 0 THEN <<>>
  ELSE Append(HexDigits(n \div 16, len - 1), HexLower[(n % 16) + 1])

(* the value of the first n digits of s *)
RECURSIVE ParseHexTo(_, _)
ParseHexTo(s, n) ==
  IF n = 0 THEN 0 ELSE ParseHexTo(s, n - 1) * 16 + HexVal(s[n])

ParseHex(s) == ParseHexTo(s, Len(s))

OidStr(n) == Chars(HexDigits(n, OidLen))

ToUpper(s) ==
  [i \in 1..Len(s) |->
     IF s[i] \in HexLowerSet
     THEN HexUpper[CHOOSE k \in 1..16 : HexLower[k] = s[i]]
     ELSE s[i]]

IsValid(x) ==
  /\ x.t = "str"
  /\ x.s = "" /\ Len(x.c) = OidLen
  /\ \A i \in 1..Len(x.c) : IsHex(x.c[i])

ObjectId(x) == Oid(ParseHex(x.c))

(* str(value) as the handlers use it: on a document's _id *)
PyStr(x) ==
  IF x.t = "oid" THEN OidStr(x.n) ELSE Str("None")

---------------------------------------------------------------------------
(* The document store gateway (database.py): a collection is the sequence  *)
(* of its documents in insertion order; insert assigns a fresh identifier  *)
(* and create_document returns it rendered as text.  Identifiers handed    *)
(* out by the store count up from FirstId in the product collection and    *)
(* from FirstCartId in the cartitem collection; smaller ones belong to     *)
(* documents that were in the store before the service started.            *)

FirstId == 10
FirstCartId == 32

NewId(coll, first) == first + Len(coll)

Insert(coll, doc, id) == Append(coll, [k \in DOMAIN doc \cup {"_id"} |->
                                         IF k = "_id" THEN Oid(id) ELSE doc[k]])

(* a lookup that ignores the identifier: the first document, if any *)
FindFirst(coll, oid) == IF coll = <<>> THEN <<>> ELSE <<coll[1]>>

(* db[coll].find_one({"_id": oid}): <<doc>> for the first match, else <<>> *)
FindOne(coll, oid) ==
  LET hits == {i \in 1..Len(coll) : Get(coll[i], "_id", None) = oid}
  IN IF hits = {} THEN <<>>
     ELSE <<coll[CHOOSE i \in hits : \A j \in hits : i <= j]>>

---------------------------------------------------------------------------
(* schemas.Product: the fields a client may send, the defaults the schema  *)
(* fills in, and the constraints it enforces.                              *)

ProductFields ==
  {"title", "description", "price", "category", "in_stock", "sizes", "image"}

IsText(x) == x.t = "str"
IsOptText(x) == x.t \in {"str", "none"}

ProductValid(p) ==
  /\ IsText(p.title)
  /\ IsOptText(p.description)
  /\ p.price.t = "num" /\ p.price.n >= 0
  /\ IsText(p.category)
  /\ p.in_stock.t = "bool"
  /\ p.sizes.t = "list" /\ \A i \in 1..Len(p.sizes.l) : IsText(p.sizes.l[i])
  /\ IsOptText(p.image)

(* product.dict() of a validated input: every field present, defaults filled *)
ProductDict(input) ==
  [title |-> input.title,
   description |-> Get(input, "description", None),
   price |-> input.price,
   category |-> Get(input, "category", Str("apparel")),
   in_stock |-> Get(input, "in_stock", Bool(TRUE)),
   sizes |-> Get(input, "sizes", DefaultSizes),
   image |-> Get(input, "image", None)]

---------------------------------------------------------------------------
(* Responses.                                                              *)

NoResp == [op |-> "none", status |-> 0, body |-> <<>>]
Ok(op, status, body) == [op |-> op, status |-> status, body |-> body]
Err(op, status, detail) == [op |-> op, status |-> status, body |-> detail]

---------------------------------------------------------------------------
(* GET /products                                                           *)

(* one iteration of the loop: <<Product>> or <<>> when it raises *)
NormalizePublic(it) ==
  LET price == Float(Get(it, "price", Num(0)))
      p == [title |-> Get(it, "title", Str("Untitled")),
            description |-> Get(it, "description", None),
            price |-> IF price = <<>> THEN None ELSE Num(price[1]),
            category |-> Get(it, "category", Str("apparel")),
            in_stock |-> Bool(Truthy(Get(it, "in_stock", Bool(TRUE)))),
            sizes |-> Or(Get(it, "sizes", None), DefaultSizes),
            image |-> Get(it, "image", None)]
  IN IF price # <<>> /\ ProductValid(p) THEN <<p>> ELSE <<>>

(* GET /products-full: one iteration of the loop *)
NormalizeFull(it) ==
  LET price == Float(Get(it, "price", Num(0)))
  IN IF price = <<>> THEN <<>>
     ELSE <<[_id |-> PyStr(Get(it, "_id", None)),
             title |-> Get(it, "title", None),
             description |-> Get(it, "description", None),
             price |-> Num(price[1]),
             category |-> Get(it, "category", None),
             in_stock |-> Bool(Truthy(Get(it, "in_stock", Bool(TRUE)))),
             sizes |-> Or(Get(it, "sizes", None), DefaultSizes),
             image |-> Get(it, "image", None)]>>

(* the handler's try block over all documents: any raise is a 500 *)
ListResponse(op, iterations) ==
  IF \E i \in 1..Len(iterations) : iterations[i] = <<>>
  THEN Err(op, 500, "exception")
  ELSE Ok(op, 200, [i \in 1..Len(iterations) |-> iterations[i][1]])

(* a request needs a worker that is not inside seed_products *)
FreeWorker == \E w \in Workers : pc[w] = "idle"

list_products ==
  /\ FreeWorker
  /\ resp' = ListResponse("list_products",
            [i \in 1..Len(products) |-> NormalizePublic(products[i])])
  /\ UNCHANGED <<products, cartitems, pc>>

list_products_full ==
  /\ FreeWorker
  /\ resp' = ListResponse("list_products_full",
            [i \in 1..Len(products) |-> NormalizeFull(products[i])])
  /\ UNCHANGED <<products, cartitems, pc>>

---------------------------------------------------------------------------
(* POST /cart                                                              *)

(* AddToCartRequest: quantity defaults to 1 when the body omits it *)
AddToCartRequest(body) ==
  [product_id |-> body.product_id,
   size |-> body.size,
   quantity |-> Get(body, "quantity", Num(1))]

(* sizes the size check accepts for a product document *)
SizesOf(prod) == Or(Get(prod, "sizes", None), DefaultSizes)

(* a size check that lets every size through *)
AnySizeOffered(size, prod) == TRUE

(* body.size not in (prod.get("sizes") or [...]) *)
SizeOffered(size, prod) == size \in SeqToSet(SizesOf(prod).l)

CartDoc(body) ==
  [product_id |-> body.product_id,
   size |-> body.size,
   quantity |-> body.quantity]

(* the handler with the size check moved in front of the two checks of the *)
(* product_id, a product that is not found counting as one without sizes   *)
AddToCartSizeFirst(request) ==
  LET body == AddToCartRequest(request)
      prod == IF IsValid(body.product_id)
              THEN FindOne(products, ObjectId(body.product_id))
              ELSE <<>>
      sizes == IF prod = <<>> THEN DefaultSizes ELSE SizesOf(prod[1])
      cid == NewId(cartitems, FirstCartId)
      reject(status, detail) ==
        [resp |-> Err("add_to_cart", status, detail), cartitems |-> cartitems]
  IN IF body.size \notin SeqToSet(sizes.l)
     THEN reject(400, "Invalid size for this product")
     ELSE IF ~IsValid(body.product_id)
     THEN reject(400, "Invalid product id")
     ELSE IF prod = <<>>
     THEN reject(404, "Product not found")
     ELSE [resp |-> Ok("add_to_cart", 201, OidStr(cid)),
           cartitems |-> Insert(cartitems, CartDoc(body), cid)]

(* the handler on the current store: the response and the cartitem        *)
(* collection it leaves                                                    *)
AddToCart(request) ==
  LET body == AddToCartRequest(request)
      prod == FindOne(products, ObjectId(body.product_id))
      cid == NewId(cartitems, FirstCartId)
      reject(status, detail) ==
        [resp |-> Err("add_to_cart", status, detail), cartitems |-> cartitems]
  IN IF ~IsValid(body.product_id)
     THEN reject(400, "Invalid product id")
     ELSE IF prod = <<>>
     THEN reject(404, "Product not found")
     ELSE IF ~SizeOffered(body.size, prod[1])
     THEN reject(400, "Invalid size for this product")
     ELSE [resp |-> Ok("add_to_cart", 201, OidStr(cid)),
           cartitems |-> Insert(cartitems, CartDoc(body), cid)]

add_to_cart(request) ==
  /\ FreeWorker
  /\ resp' = AddToCart(request).resp
  /\ cartitems' = AddToCart(request).cartitems
  /\ UNCHANGED <<products, pc>>

---------------------------------------------------------------------------
(* GET /cart                                                               *)

(* the product a cart item resolves to: <<prod>> or <<>> *)
Resolve(it) ==
  LET pid == Get(it, "product_id", Str(""))
  IN IF IsValid(pid) THEN FindOne(products, ObjectId(pid)) ELSE <<>>

(* an iteration that raises when the item's product is not found *)
EnrichResolved(it) ==
  LET prod == Resolve(it)
      price == IF prod # <<>> THEN Float(Get(prod[1], "price", Num(0)))
               ELSE <<>>
  IN IF price = <<>> THEN <<>>
     ELSE <<[id |-> PyStr(Get(it, "_id", None)),
             product_id |-> Get(it, "product_id", Str("")),
             size |-> Get(it, "size", None),
             quantity |-> Get(it, "quantity", Num(1)),
             title |-> Get(prod[1], "title", None),
             price |-> Num(price[1]),
             image |-> Get(prod[1], "image", None)]>>

(* an iteration that gives an item whose product is not found a null      *)
(* price, as it does for the title and the image                           *)
EnrichNullPrice(it) ==
  LET prod == Resolve(it)
      price == IF prod # <<>> THEN Float(Get(prod[1], "price", Num(0)))
               ELSE <<0>>
  IN IF price = <<>> THEN <<>>
     ELSE <<[id |-> PyStr(Get(it, "_id", None)),
             product_id |-> Get(it, "product_id", Str("")),
             size |-> Get(it, "size", None),
             quantity |-> Get(it, "quantity", Num(1)),
             title |-> IF prod # <<>> THEN Get(prod[1], "title", None)
                       ELSE None,
             price |-> IF prod # <<>> THEN Num(price[1]) ELSE None,
             image |-> IF prod # <<>> THEN Get(prod[1], "image", None)
                       ELSE None]>>

(* one iteration of the loop: <<item>> or <<>> when it raises *)
Enrich(it) ==
  LET prod == Resolve(it)
      price == IF prod # <<>> THEN Float(Get(prod[1], "price", Num(0)))
               ELSE <<0>>
  IN IF price = <<>> THEN <<>>
     ELSE <<[id |-> PyStr(Get(it, "_id", None)),
             product_id |-> Get(it, "product_id", Str("")),
             size |-> Get(it, "size", None),
             quantity |-> Get(it, "quantity", Num(1)),
             title |-> IF prod # <<>> THEN Get(prod[1], "title", None)
                       ELSE None,
             price |-> Num(price[1]),
             image |-> IF prod # <<>> THEN Get(prod[1], "image", None)
                       ELSE None]>>

get_cart ==
  /\ FreeWorker
  /\ resp' = ListResponse("get_cart",
            [i \in 1..Len(cartitems) |-> Enrich(cartitems[i])])
  /\ UNCHANGED <<products, cartitems, pc>>

---------------------------------------------------------------------------
(* POST /products                                                          *)

create_product(input) ==
  LET new_id == NewId(products, FirstId)
  IN /\ FreeWorker
     /\ products' = Insert(products, ProductDict(input), new_id)
     /\ resp' = Ok("create_product", 201, OidStr(new_id))
     /\ UNCHANGED <<cartitems, pc>>

---------------------------------------------------------------------------
(* GET /seed: the count, then the loop that inserts the demo products and  *)
(* the response.  Other requests, a second seed_products among them, may   *)
(* run between the count and the loop; the loop's create_document calls    *)
(* are taken together.  The store is connected, so "if db" holds.          *)

DemoProducts ==
  << [title |-> Str("Nebula Sheen Hoodie"),
      description |-> Str("Gloss vinyl sheen with soft-core cotton. Y2K gradients, reflective piping."),
      price |-> Num(89),
      category |-> Str("hoodies"),
      in_stock |-> Bool(TRUE),
      sizes |-> List(<<Str("S"), Str("M"), Str("L"), Str("XL")>>),
      image |-> Str("https://images.unsplash.com/photo-1520975916090-3105956dac38?q=80&w=1600&auto=format&fit=crop")],
     [title |-> Str("Chrome Ripple Tee"),
      description |-> Str("Liquid chrome graphic, oversized cut. Opium club energy."),
      price |-> Num(45),
      category |-> Str("tshirts"),
      in_stock |-> Bool(TRUE),
      sizes |-> List(<<Str("XS"), Str("S"), Str("M"), Str("L")>>),
      image |-> Str("https://images.unsplash.com/photo-1490481651871-ab68de25d43d?q=80&w=1600&auto=format&fit=crop")],
     [title |-> Str("Ultra Violet Cargo"),
      description |-> Str("Parachute cargos with iridescent straps and cinch toggles."),
      price |-> Num(110),
      category |-> Str("pants"),
      in_stock |-> Bool(TRUE),
      sizes |-> List(<<Str("S"), Str("M"), Str("L")>>),
      image |-> Str("https://images.unsplash.com/photo-1532890162909-9f2bff5f7c1a?q=80&w=1600&auto=format&fit=crop")] >>

(* the emptiness check with its threshold at the size of the demo set:    *)
(* a collection that holds just the demo products is seeded once more      *)
AlreadySeededAbove3(count) == count > 3

(* if count > 0: return "Products already exist" *)
AlreadySeeded(count) == count > 0

SeedNo == Ok("seed_products", 200,
             [seeded |-> FALSE, message |-> "Products already exist"])
SeedOk == Ok("seed_products", 200,
             [seeded |-> TRUE, count |-> Len(DemoProducts)])

RECURSIVE InsertAll(_, _)
InsertAll(coll, docs) ==
  IF docs = <<>> THEN coll
  ELSE InsertAll(Insert(coll, Head(docs), NewId(coll, FirstId)), Tail(docs))

seed_count(w) ==
  /\ pc[w] = "idle"
  /\ IF AlreadySeeded(Len(products))
     THEN /\ resp' = SeedNo
          /\ UNCHANGED pc
     ELSE /\ pc' = [pc EXCEPT ![w] = "seeding"]
          /\ UNCHANGED resp
  /\ UNCHANGED <<products, cartitems>>

(* the second half of seed_products with the count taken again before     *)
(* the loop: the race of two calls is closed                               *)
seed_insert_recount(w) ==
  /\ pc[w] = "seeding"
  /\ pc' = [pc EXCEPT ![w] = "idle"]
  /\ IF AlreadySeeded(Len(products))
     THEN resp' = SeedNo /\ UNCHANGED products
     ELSE products' = InsertAll(products, DemoProducts) /\ resp' = SeedOk
  /\ UNCHANGED cartitems

seed_insert(w) ==
  /\ pc[w] = "seeding"
  /\ products' = InsertAll(products, DemoProducts)
  /\ pc' = [pc EXCEPT ![w] = "idle"]
  /\ resp' = SeedOk
  /\ UNCHANGED cartitems

---------------------------------------------------------------------------
(* Requests the clients send, and documents found in the store at start.   *)

Absent == Value("absent", 0, "", <<>>, <<>>)

(* the document holding the given <<key, value>> pairs, absent ones left out *)
Doc(pairs) ==
  [k \in {kv[1] : kv \in {x \in pairs : x[2] # Absent}} |->
     (CHOOSE kv \in pairs : kv[1] = k)[2]]

RawProductId == 2
SecondRawProductId == 3
RawCartId == 4
MissingId == 1

MalformedIds ==
  {Chars(<<"a", "b", "c">>),
   Chars([i \in 1..OidLen |-> IF i = 1 THEN "z" ELSE "0"])}

(* identifiers a client may send: the first identifier the store hands out *)
(* in lower and in upper case, the identifier of a document that was in    *)
(* the store before, and malformed text                                    *)
ProductIdInputs ==
  {OidStr(FirstId), Chars(ToUpper(OidStr(FirstId).c)), OidStr(RawProductId)}
    \cup MalformedIds

SizeInputs == {Str("XS"), Str("XXL")}

QuantityInputs == {Absent, Num(-1), Num(0)}

CartRequests ==
  {Doc({<<"product_id", p>>, <<"size", s>>, <<"quantity", q>>}) :
     p \in ProductIdInputs, s \in SizeInputs, q \in QuantityInputs}

ProductInputs ==
  {[title |-> Str("Tee"), price |-> Num(20)],
   [title |-> Str("Sock"), price |-> Num(0), sizes |-> List(<<>>),
    image |-> Str("sock.png")]}

DemoTitles == {DemoProducts[i].title : i \in 1..Len(DemoProducts)}

(* documents this run inserted through create_product / add_to_cart *)
Created == {i \in 1..Len(products) :
              /\ products[i]["_id"].n >= FirstId
              /\ Get(products[i], "title", None) \notin DemoTitles}
Added == {i \in 1..Len(cartitems) : cartitems[i]["_id"].n >= FirstCartId}

(* product documents written by other programs, of any shape *)
RawProduct(id, title, price, sizes) ==
  Doc({<<"_id", Oid(id)>>, <<"title", title>>, <<"price", price>>,
       <<"sizes", sizes>>})

RawPrices == {Absent, Num(45), Chars(<<"4", "5">>), Chars(<<"b", "a", "d">>)}
RawSizes == {Absent, List(<<>>), List(<<Str("XL"), Str("XS")>>)}

RawProducts ==
  {RawProduct(RawProductId, Str("Tee"), p, s) : p \in RawPrices, s \in RawSizes}
    \cup {RawProduct(RawProductId, Absent, Absent, Absent)}

RawStores ==
  {<<>>} \cup {<<p>> : p \in RawProducts}
    \cup {<<p, RawProduct(SecondRawProductId, Str("Cap"), Num(7), s)>> :
            p \in RawProducts, s \in {Absent, List(<<Str("L")>>)}}

(* cart items written by other programs: their products are gone, or their *)
(* product_id never was an identifier                                      *)
RawCart ==
  << Doc({<<"_id", Oid(RawCartId)>>, <<"product_id", OidStr(MissingId)>>,
          <<"size", Str("M")>>, <<"quantity", Num(3)>>}),
     Doc({<<"_id", Oid(RawCartId + 1)>>,
          <<"product_id", Chars(<<"a", "b", "c">>)>>,
          <<"size", Str("XXL")>>, <<"quantity", Num(0)>>}),
     Doc({<<"_id", Oid(RawCartId + 2)>>, <<"product_id", Num(5)>>,
          <<"size", Str("S")>>, <<"quantity", Num(2)>>}),
     Doc({<<"_id", Oid(RawCartId + 3)>>}) >>

---------------------------------------------------------------------------

Idle ==
  /\ pc = [w \in Workers |-> "idle"]
  /\ resp = NoResp

(* an empty store *)
Init ==
  /\ products = <<>>
  /\ cartitems = <<>>
  /\ Idle

(* a store whose cart holds items left by other programs *)
InitCart ==
  /\ products = <<>>
  /\ cartitems = RawCart
  /\ Idle

(* a store whose product collection holds documents of any shape *)
InitRaw ==
  /\ products \in RawStores
  /\ cartitems = <<>>
  /\ Idle

Next ==
  \/ list_products
  \/ list_products_full
  \/ \E request \in CartRequests :
       Cardinality(Added) < MaxCart /\ add_to_cart(request)
  \/ get_cart
  \/ \E input \in ProductInputs :
       Cardinality(Created) < MaxCreated /\ create_product(input)
  \/ \E w \in Workers : seed_count(w)
  \/ \E w \in Workers : seed_insert(w)

Spec == Init /\ [][Next]_vars
SpecCart == InitCart /\ [][Next]_vars
SpecRaw == InitRaw /\ [][Next]_vars

---------------------------------------------------------------------------
(* Vocabulary of the properties.                                           *)

XsToXl == <<Str("XS"), Str("S"), Str("M"), Str("L"), Str("XL")>>

(* the sizes list a product document offers: its stored list when that is  *)
(* present and non-empty, else XS,S,M,L,XL                                 *)
Offered(prod) ==
  IF "sizes" \in DOMAIN prod /\ prod["sizes"].t = "list"
     /\ Len(prod["sizes"].l) > 0
  THEN prod["sizes"].l
  ELSE XsToXl

(* the text is a well-formed identifier: 24 hexadecimal digits *)
WellFormed(x) ==
  /\ x.t = "str"
  /\ Len(x.c) = 24
  /\ \A i \in 1..Len(x.c) : x.c[i] \in HexSet

(* positions of the products a product_id value identifies *)
Named(pid) ==
  {i \in 1..Len(products) :
     WellFormed(pid) /\ products[i]["_id"].n = ParseHex(pid.c)}

Unresolved(item) ==
  "product_id" \notin DOMAIN item \/ Named(item["product_id"]) = {}

IsListing(r) == r.op \in {"list_products", "list_products_full"}

AllIdle == \A w \in Workers : pc[w] = "idle"

SeedReport(r, flag) == r.op = "seed_products" /\ r.body.seeded = flag

(* the collection holds n copies of every demo product *)
DemoCopies(n) ==
  \A k \in 1..3 :
    Cardinality({i \in 1..Len(products) :
                   products[i]["title"] = DemoProducts[k].title}) = n

---------------------------------------------------------------------------
(* C1: two seed_products calls one after the other.  A call that runs its  *)
(* count and its insertion on an empty collection leaves exactly the 3     *)
(* demo products and reports seeded=true, count=3; a call made when the    *)
(* latest response is such a report, with no call in progress, reports     *)
(* seeded=false and leaves the collection as it was.                       *)
C1_SeedTwice ==
  [][\A w \in Workers :
       /\ (products = <<>> /\ seed_count(w)) => pc'[w] = "seeding"
       /\ (products = <<>> /\ seed_insert(w)) =>
            /\ Len(products') = 3
            /\ DemoCopies(1)'
            /\ SeedReport(resp', TRUE) /\ resp'.body.count = 3
       /\ (SeedReport(resp, TRUE) /\ AllIdle /\ seed_count(w)) =>
            /\ SeedReport(resp', FALSE)
            /\ products' = products
            /\ AllIdle']_vars

(* the second call has answered seeded=false and the collection holds the  *)
(* 3 demo products the first call inserted                                 *)
C1_Witness ==
  /\ SeedReport(resp, FALSE)
  /\ Len(products) = 3
  /\ DemoCopies(1)
  /\ AllIdle

(* C8: the count and the insertion of seed_products are separate steps: a  *)
(* call that counted 0 inserts the 3 demo products and reports             *)
(* seeded=true, count=3 whatever the collection holds by then, and a call  *)
(* that finds the collection empty is let through while another call is    *)
(* between its count and its insertion.                                    *)
C8_SeedRace ==
  [][\A w \in Workers :
       /\ (pc[w] = "seeding" /\ pc'[w] = "idle") =>
            /\ Len(products') = Len(products) + 3
            /\ \A i \in 1..Len(products) : products'[i] = products[i]
            /\ \A k \in 1..3 :
                 products'[Len(products) + k]["title"] = DemoProducts[k].title
            /\ SeedReport(resp', TRUE) /\ resp'.body.count = 3
       /\ (pc[w] = "idle" /\ products = <<>> /\ seed_count(w)) =>
            pc'[w] = "seeding"]_vars

(* both calls counted 0 and have answered seeded=true: 6 products, every   *)
(* demo product twice                                                      *)
C8_Witness ==
  /\ SeedReport(resp, TRUE)
  /\ AllIdle
  /\ Len(products) = 6
  /\ DemoCopies(2)

---------------------------------------------------------------------------
(* the text form of the identifiers of the stored cart items *)
StoredCartIds(items) ==
  {HexDigits(items[i]["_id"].n, 24) : i \in 1..Len(items)}

(* C2: in every state, for every request that names an existing product,  *)
(* add_to_cart answers 400 and inserts nothing when the size is not among  *)
(* the sizes the product offers, and answers 201 with the identifier of    *)
(* the one item it inserted when it is; no step removes or changes a       *)
(* stored cart item, and every get_cart response is a 200 that lists the   *)
(* identifier of every stored item, so the identifier returned is in all   *)
(* later listings.                                                         *)
C2_AddOutcome ==
  \A request \in CartRequests :
    Named(request["product_id"]) # {} =>
      LET prod == products[CHOOSE i \in Named(request["product_id"]) : TRUE]
          out == AddToCart(request)
      IN IF request["size"] \in SeqToSet(Offered(prod))
         THEN /\ out.resp.status = 201
              /\ Len(out.cartitems) = Len(cartitems) + 1
              /\ out.resp.body.c \notin StoredCartIds(cartitems)
              /\ out.resp.body.c \in StoredCartIds(out.cartitems)
         ELSE /\ out.resp.status = 400
              /\ out.cartitems = cartitems

C2_Listed ==
  resp.op = "get_cart" =>
    /\ resp.status = 200
    /\ StoredCartIds(cartitems) = {resp.body[j].id.c : j \in 1..Len(resp.body)}

C2_Kept ==
  \A i \in 1..Len(cartitems) :
    i <= Len(cartitems') /\ cartitems'[i] = cartitems[i]

C3_IdCheckedFirst ==
  \A request \in CartRequests :
    LET out == AddToCart(request)
    IN /\ ~WellFormed(request["product_id"]) =>
            /\ out.resp.status = 400 /\ out.resp.body = "Invalid product id"
            /\ out.cartitems = cartitems
       /\ (WellFormed(request["product_id"])
             /\ Named(request["product_id"]) = {}) =>
            /\ out.resp.status = 404
            /\ out.cartitems = cartitems

(* a 404 was answered although the collection holds products *)
C3_Witness ==
  /\ resp.op = "add_to_cart" /\ resp.status = 404
  /\ products # <<>>

(* C7: every stored cart item, and every item a get_cart response lists,   *)
(* has quantity >= 1.                                                      *)
C7_QuantityPositive ==
  /\ \A i \in 1..Len(cartitems) : cartitems[i]["quantity"].n >= 1
  /\ (resp.op = "get_cart" /\ resp.status = 200) =>
       \A j \in 1..Len(resp.body) : resp.body[j].quantity.n >= 1

(* C10: every stored cart item has a product_id that names a product of    *)
(* the product collection, and its size is among the sizes that product    *)
(* offers.                                                                 *)
C10_CartRefersToProducts ==
  \A i \in 1..Len(cartitems) :
    /\ "product_id" \in DOMAIN cartitems[i]
    /\ Named(cartitems[i]["product_id"]) # {}
    /\ \A k \in Named(cartitems[i]["product_id"]) :
         cartitems[i]["size"] \in SeqToSet(Offered(products[k]))

(* an item is stored whose product_id is the upper-case form of its        *)
(* product's identifier, next to products that do not offer its size       *)
C10_Witness ==
  \E i \in 1..Len(cartitems) :
    /\ cartitems[i]["product_id"] = Chars(ToUpper(OidStr(FirstId).c))
    /\ Len(products) > 1
    /\ \E k \in 1..Len(products) :
         cartitems[i]["size"] \notin SeqToSet(Offered(products[k]))

---------------------------------------------------------------------------
(* the stored value of a cart item's field, with what get_cart shows for   *)
(* a field that is not stored                                              *)
Stored(item, key, shown) == IF key \in DOMAIN item THEN item[key] ELSE shown

C9_PriceNonNegative ==
  resp.op = "get_cart" =>
    /\ resp.status = 200
    /\ Len(resp.body) = Len(cartitems)
    /\ \A j \in 1..Len(resp.body) :
         /\ resp.body[j].price.t = "num"
         /\ resp.body[j].price.n >= 0
         /\ Unresolved(cartitems[j]) => resp.body[j].price.n = 0

(* a response holds an unresolved item at price 0 and an item of a seeded  *)
(* product at its price, after a product was created as well               *)
C9_Witness ==
  /\ resp.op = "get_cart" /\ resp.status = 200
  /\ \E j \in 1..Len(resp.body) :
       Unresolved(cartitems[j]) /\ resp.body[j].price = Num(0)
  /\ \E j \in 1..Len(resp.body) : resp.body[j].price.n > 0
  /\ \E i \in 1..Len(products) : products[i]["title"] \notin DemoTitles
  /\ DemoCopies(1)

---------------------------------------------------------------------------
(* the stored price is absent or is not a number *)
NoNumericPrice(doc) ==
  "price" \notin DOMAIN doc \/ doc["price"] = Chars(<<"b", "a", "d">>)

(* C5: every list_products and list_products_full response is a 200 with   *)
(* one normalized product per stored document, whose price is 0 when the   *)
(* stored price is absent or not a number.                                 *)
C5_NormalizationTotal ==
  IsListing(resp) =>
    /\ resp.status = 200
    /\ Len(resp.body) = Len(products)
    /\ \A i \in 1..Len(products) :
         NoNumericPrice(products[i]) => resp.body[i].price = Num(0)

(* C6: every list_products and list_products_full response gives, for      *)
(* every stored document, the stored sizes list when that is present and   *)
(* non-empty and XS,S,M,L,XL otherwise.                                    *)
C6_SizesNormalized ==
  IsListing(resp) =>
    /\ resp.status = 200
    /\ Len(resp.body) = Len(products)
    /\ \A i \in 1..Len(products) : resp.body[i].sizes.l = Offered(products[i])

====
